---------------------------- MODULE Spec2Model ----------------------------
(***************************************************************************)
(* Model of the recipe recommender (src/app.py): the recipe store          *)
(* (load_recipes), the attribute indexer (get_unique_values), the filter   *)
(* engine (recommend_recipes) with its word-boundary ingredient matcher,   *)
(* and the session state behind the Recommend / Surprise Me / Show More    *)
(* buttons.                                                                *)
(*                                                                         *)
(* A Python str is a sequence of one-character strings, so that strip,     *)
(* lower, split and the regular-expression search are computed character   *)
(* by character.  A DataFrame is a record [columns, rows]: pd.DataFrame()  *)
(* has no columns and no rows; a frame read from the file has the columns  *)
(* and one row per recipe, each row carrying its index label.              *)
(***************************************************************************)
EXTENDS Integers, Sequences, FiniteSets

VARIABLES
    recipes_df,            \* module-level recipes_df (line 34)
    loaded,                \* the frame load_recipes returned, kept for comparison
    load_error,            \* which st.error load_recipes signalled
    session_state,         \* st.session_state: a dict, keys added by the handlers
    criteria,              \* the widgets' values at the last Recommend click (the defaults before)
    last_click,            \* the button that returned True in the last run
    warning,               \* the st.warning / st.info shown by the last run
    rendered,              \* number of display_recipe calls in the last run
    show_more_offered,     \* whether the last run drew "Show More Recipes"
    call                   \* a direct call of one function: arguments and outcome

uivars == <<recipes_df, loaded, load_error, session_state, criteria, last_click,
            warning, rendered, show_more_offered>>
vars == <<recipes_df, loaded, load_error, session_state, criteria, last_click,
          warning, rendered, show_more_offered, call>>

NoCall == [fn |-> "none"]

-----------------------------------------------------------------------------
(* Bounds *)

\* longest search term and longest ingredient of the matcher's specification
MaxTermLen == 2
MaxIngLen == 4
\* most recipes in a file of the filter's specification
MaxRecipes == 2
\* most recipes in a file of the indexer's specification
MaxRows == 3
\* most recipes in the file of the application's specification
MaxCatalog == 11

-----------------------------------------------------------------------------
(* Python str operations *)

Range(s) == {s[i] : i \in 1..Len(s)}

\* characters matched by \w: letters, digits, underscore
WordChars == {"a", "b", "c", "d", "e", "f", "g", "h", "i", "j", "k", "l", "m",
              "n", "o", "p", "q", "r", "s", "t", "u", "v", "w", "x", "y", "z",
              "A", "B", "C", "D", "E", "F", "G", "H", "I", "J", "K", "L", "M",
              "N", "O", "P", "Q", "R", "S", "T", "U", "V", "W", "X", "Y", "Z",
              "0", "1", "2", "3", "4", "5", "6", "7", "8", "9", "_"}

Whitespace == {" ", "\t", "\n"}

UpperToLower == [A |-> "a", B |-> "b", C |-> "c", D |-> "d", E |-> "e", F |-> "f",
                 G |-> "g", H |-> "h", I |-> "i", J |-> "j", K |-> "k", L |-> "l",
                 M |-> "m", N |-> "n", O |-> "o", P |-> "p", Q |-> "q", R |-> "r",
                 S |-> "s", T |-> "t", U |-> "u", V |-> "v", W |-> "w", X |-> "x",
                 Y |-> "y", Z |-> "z"]

lower_char(c) == IF c \in DOMAIN UpperToLower THEN UpperToLower[c] ELSE c

\* str.lower()
lower(s) == [i \in 1..Len(s) |-> lower_char(s[i])]

RECURSIVE lstrip(_)
lstrip(s) == IF s # <<>> /\ Head(s) \in Whitespace THEN lstrip(Tail(s)) ELSE s

RECURSIVE rstrip(_)
rstrip(s) ==
    IF s # <<>> /\ s[Len(s)] \in Whitespace
    THEN rstrip(SubSeq(s, 1, Len(s) - 1)) ELSE s

\* str.strip()
strip(s) == rstrip(lstrip(s))

\* str.split(','): the pieces between the commas, empty pieces kept
RECURSIVE split(_)
split(s) ==
    IF \A i \in 1..Len(s) : s[i] # ","
    THEN <<s>>
    ELSE LET i == CHOOSE j \in 1..Len(s) :
                      s[j] = "," /\ \A k \in 1..(j - 1) : s[k] # ","
         IN <<SubSeq(s, 1, i - 1)>> \o split(SubSeq(s, i + 1, Len(s)))

-----------------------------------------------------------------------------
(* The regular expression of line 72: r'\b' + re.escape(term) + r'\b',     *)
(* searched with re.IGNORECASE.  A pattern is a sequence of tokens: a word *)
(* boundary or a literal character.                                        *)

Boundary == [kind |-> "b"]
Literal(c) == [kind |-> "lit", ch |-> c]

\* re.escape: every character of the term, metacharacters too, becomes a literal
re_escape(term) == [i \in 1..Len(term) |-> Literal(term[i])]

word_pattern(term) == <<Boundary>> \o re_escape(term) \o <<Boundary>>

IsWordAt(s, p) == p >= 1 /\ p <= Len(s) /\ s[p] \in WordChars

\* \b between s[p] and s[p+1]: exactly one side is a word character
AtBoundary(s, p) == IsWordAt(s, p) # IsWordAt(s, p + 1)

\* whether pat[k..] matches s starting after position p (p characters consumed)
RECURSIVE MatchFrom(_, _, _, _)
MatchFrom(pat, k, s, p) ==
    IF k > Len(pat) THEN TRUE
    ELSE IF pat[k].kind = "b" THEN AtBoundary(s, p) /\ MatchFrom(pat, k + 1, s, p)
    ELSE IF p + 1 > Len(s) THEN FALSE
    ELSE lower_char(s[p + 1]) = lower_char(pat[k].ch)
         /\ MatchFrom(pat, k + 1, s, p + 1)

\* re.search(pattern, s, re.IGNORECASE) is not None
re_search(pat, s) == \E p \in 0..Len(s) : MatchFrom(pat, 1, s, p)

\* line 72, inner test: the term is found in the ingredient as a whole word
term_matches(term, recipe_ing) == re_search(word_pattern(term), recipe_ing)

\* the tokenizer without the "if s.strip()" of line 66: blank pieces stay
search_terms_keep_blank(str) ==
    LET pieces == split(str)
    IN [i \in 1..Len(pieces) |-> lower(strip(pieces[i]))]

\* line 66: the search terms of the query
search_terms(str) ==
    LET pieces == split(str)
        kept == SelectSeq(pieces, LAMBDA s : strip(s) # <<>>)
    IN [i \in 1..Len(kept) |-> lower(strip(kept[i]))]

\* line 25: the normalized ingredient list of a recipe
normalize_ingredients(x) == [i \in 1..Len(x) |-> lower(strip(x[i]))]

\* the characters in ascending code point order: Python compares str by code point
CodePoints == <<"\t", "\n", " ", "(", ")", ",", "-", ".",
                "0", "1", "2", "3", "4", "5", "6", "7", "8", "9",
                "A", "B", "C", "D", "E", "F", "G", "H", "I", "J", "K", "L", "M",
                "N", "O", "P", "Q", "R", "S", "T", "U", "V", "W", "X", "Y", "Z",
                "_",
                "a", "b", "c", "d", "e", "f", "g", "h", "i", "j", "k", "l", "m",
                "n", "o", "p", "q", "r", "s", "t", "u", "v", "w", "x", "y", "z">>

ord(c) == CHOOSE i \in 1..Len(CodePoints) : CodePoints[i] = c

\* a < b on str
RECURSIVE str_less(_, _)
str_less(a, b) ==
    IF b = <<>> THEN FALSE
    ELSE IF a = <<>> THEN TRUE
    ELSE IF Head(a) # Head(b) THEN ord(Head(a)) < ord(Head(b))
    ELSE str_less(Tail(a), Tail(b))

\* insertion of v into an ascending list
RECURSIVE insert_sorted(_, _)
insert_sorted(v, xs) ==
    IF xs = <<>> THEN <<v>>
    ELSE IF str_less(Head(xs), v) THEN <<Head(xs)>> \o insert_sorted(v, Tail(xs))
    ELSE <<v>> \o xs

\* sorted(list of str)
RECURSIVE sorted(_)
sorted(xs) == IF xs = <<>> THEN <<>> ELSE insert_sorted(Head(xs), sorted(Tail(xs)))

-----------------------------------------------------------------------------
(* DataFrames *)

\* pd.DataFrame(): no columns, no rows
EmptyDataFrame == [columns |-> FALSE, rows |-> <<>>]

\* df.empty
df_empty(df) == ~df.columns \/ df.rows = <<>>

\* df[column] as a list; a frame without the column raises KeyError
column_values(df, column) == [i \in 1..Len(df.rows) |-> df.rows[i][column]]

\* Series.unique(): the distinct values in order of first appearance
RECURSIVE unique(_)
unique(xs) ==
    IF xs = <<>> THEN <<>>
    ELSE LET init == unique(SubSeq(xs, 1, Len(xs) - 1))
             v == xs[Len(xs)]
         IN IF v \in Range(init) THEN init ELSE Append(init, v)

\* Series.max()
column_max(df, column) ==
    CHOOSE m \in Range(column_values(df, column)) :
        \A v \in Range(column_values(df, column)) : v <= m

Any == <<"A", "n", "y">>

-----------------------------------------------------------------------------
(* Recipe store: load_recipes, lines 20-32 *)

\* one row of the frame pd.read_json builds, with the derived ingredients_list
loaded_row(rec, i) ==
    [index |-> i - 1,
     cuisine |-> rec.cuisine,
     meal_type |-> rec.meal_type,
     difficulty |-> rec.difficulty,
     prep_time_minutes |-> rec.prep_time_minutes,
     cook_time_minutes |-> rec.cook_time_minutes,
     ingredients |-> rec.ingredients,
     ingredients_list |-> normalize_ingredients(rec.ingredients)]

\* the file is missing, is not JSON, or holds an array of recipe objects; an
\* empty array reads as a frame without an 'ingredients' column, whose KeyError
\* the broad except turns into the empty frame
load_recipes(file) ==
    IF file.kind = "missing"
    THEN [df |-> EmptyDataFrame, error |-> "not_found"]
    ELSE IF file.kind = "malformed" \/ file.records = <<>>
    THEN [df |-> EmptyDataFrame, error |-> "parse"]
    ELSE [df |-> [columns |-> TRUE,
                  rows |-> [i \in 1..Len(file.records) |->
                                loaded_row(file.records[i], i)]],
          error |-> "none"]

-----------------------------------------------------------------------------
(* Attribute indexer: get_unique_values, lines 37-40 *)

\* the indexer sorting 'Any' together with the values
get_unique_values_any_sorted(df, column) ==
    IF ~df_empty(df)
    THEN sorted(<<Any>> \o unique(column_values(df, column)))
    ELSE <<Any>>

get_unique_values(df, column) ==
    IF ~df_empty(df)
    THEN <<Any>> \o sorted(unique(column_values(df, column)))
    ELSE <<Any>>

-----------------------------------------------------------------------------
(* Filter engine: recommend_recipes, lines 42-76 *)

\* filtered_df[filtered_df[column] == value]
filter_equal(rows, column, value) ==
    SelectSeq(rows, LAMBDA r : r[column] = value)

\* the time filter with the upper bounds exclusive
filter_times_exclusive(rows, c) ==
    SelectSeq(rows, LAMBDA r :
        /\ r.prep_time_minutes >= c.min_prep_time
        /\ r.prep_time_minutes < c.max_prep_time
        /\ r.cook_time_minutes >= c.min_cook_time
        /\ r.cook_time_minutes < c.max_cook_time)

\* lines 57-62
filter_times(rows, c) ==
    SelectSeq(rows, LAMBDA r :
        /\ r.prep_time_minutes >= c.min_prep_time
        /\ r.prep_time_minutes <= c.max_prep_time
        /\ r.cook_time_minutes >= c.min_cook_time
        /\ r.cook_time_minutes <= c.max_cook_time)

\* line 72: all(any(re.search(...) for recipe_ing in ...) for search_ing in ...)
row_matches(row, search_ingredients) ==
    \A k \in 1..Len(search_ingredients) :
        \E j \in 1..Len(row.ingredients_list) :
            term_matches(search_ingredients[k], row.ingredients_list[j])

\* the ingredient filter collecting the matched rows last match first
filter_ingredients_reversed(rows, search_ingredients_str) ==
    IF search_ingredients_str # <<>>
    THEN LET search_ingredients == search_terms(search_ingredients_str)
             matched == SelectSeq(rows, LAMBDA r : row_matches(r, search_ingredients))
         IN IF search_ingredients # <<>>
            THEN [i \in 1..Len(matched) |-> matched[Len(matched) + 1 - i]]
            ELSE rows
    ELSE rows

\* lines 65-74
filter_ingredients(rows, search_ingredients_str) ==
    IF search_ingredients_str # <<>>
    THEN LET search_ingredients == search_terms(search_ingredients_str)
         IN IF search_ingredients # <<>>
            THEN SelectSeq(rows, LAMBDA r : row_matches(r, search_ingredients))
            ELSE rows
    ELSE rows

\* lines 46-74: the candidates after each narrowing step, the frame's own rows
\* first: cuisine, meal type, difficulty, times, ingredients
filter_passes(df, c) ==
    LET by_cuisine ==
            IF c.cuisine # Any
            THEN filter_equal(df.rows, "cuisine", c.cuisine) ELSE df.rows
        by_meal ==
            IF c.meal_type # Any
            THEN filter_equal(by_cuisine, "meal_type", c.meal_type) ELSE by_cuisine
        by_difficulty ==
            IF c.difficulty # Any
            THEN filter_equal(by_meal, "difficulty", c.difficulty) ELSE by_meal
        by_time == filter_times(by_difficulty, c)
        by_ingredients == filter_ingredients(by_time, c.search_ingredients_str)
    IN <<df.rows, by_cuisine, by_meal, by_difficulty, by_time, by_ingredients>>

\* the filter without the copy of line 46, narrowing the caller's frame in place
recommend_recipes_inplace(df, c) ==
    IF ~df.columns
    THEN [raised |-> TRUE, result |-> EmptyDataFrame, df |-> df]
    ELSE [raised |-> FALSE,
          result |-> [columns |-> TRUE, rows |-> filter_passes(df, c)[6]],
          df |-> [columns |-> TRUE, rows |-> filter_passes(df, c)[6]]]

\* The outcome of a call: whether it raised (KeyError at the first column
\* access on a frame without the columns), the frame returned, and the caller's
\* frame after the call (line 46 works on a copy and every step builds a new
\* frame, so the caller's frame is as it was).
recommend_recipes(df, c) ==
    IF ~df.columns
    THEN [raised |-> TRUE, result |-> EmptyDataFrame, df |-> df]
    ELSE [raised |-> FALSE,
          result |-> [columns |-> TRUE, rows |-> filter_passes(df, c)[6]],
          df |-> df]

-----------------------------------------------------------------------------
(* Application: the script below line 93.  One action is one run of the    *)
(* script with one button returning True, up to the end of the run (and of *)
(* the rerun line 163 asks for).                                           *)

\* lines 141 and 162
PageSize == 5
\* lines 114 and 118: the sliders' fallback maxima
FallbackMaxPrep == 60
FallbackMaxCook == 90

\* DataFrame.head(n)
head(df, n) ==
    [columns |-> df.columns,
     rows |-> SubSeq(df.rows, 1, IF n < Len(df.rows) THEN n ELSE Len(df.rows))]

\* the widgets' values before the user touches them (lines 108-127)
default_criteria(df) ==
    [cuisine |-> Any, meal_type |-> Any, difficulty |-> Any,
     min_prep_time |-> 0,
     max_prep_time |-> IF ~df_empty(df) THEN column_max(df, "prep_time_minutes")
                       ELSE FallbackMaxPrep,
     min_cook_time |-> 0,
     max_cook_time |-> IF ~df_empty(df) THEN column_max(df, "cook_time_minutes")
                       ELSE FallbackMaxCook,
     search_ingredients_str |-> <<>>]

\* lines 151-165: what column 2 draws for a session state
render(ss) ==
    IF "recommended_recipes" \in DOMAIN ss /\ ~df_empty(ss.recommended_recipes)
    THEN [rendered |-> Len(head(ss.recommended_recipes, ss.display_count).rows),
          show_more_offered |-> Len(ss.recommended_recipes.rows) > ss.display_count,
          warning |-> "none"]
    ELSE IF "recommended_recipes" \in DOMAIN ss
    THEN [rendered |-> 0, show_more_offered |-> FALSE, warning |-> "no_recipes_found"]
    ELSE [rendered |-> 0, show_more_offered |-> FALSE, warning |-> "none"]

\* the run's output for the session state ss
Draw(ss) ==
    /\ rendered' = render(ss).rendered
    /\ show_more_offered' = render(ss).show_more_offered
    /\ warning' = render(ss).warning

\* an empty st.session_state
NoSession == [k \in {} |-> 0]

\* lines 135-141: "Recommend Recipes" with the widgets set to c
Recommend(c) ==
    /\ ~df_empty(recipes_df)
    /\ LET o == recommend_recipes(recipes_df, c)
       IN /\ ~o.raised
          /\ recipes_df' = o.df
          /\ session_state' = [recommended_recipes |-> o.result,
                               display_count |-> PageSize]
          /\ Draw([recommended_recipes |-> o.result, display_count |-> PageSize])
    /\ criteria' = c
    /\ last_click' = "recommend"
    /\ UNCHANGED <<loaded, load_error, call>>

\* "Surprise Me!" sampling the filtered frame of the session when there is one
SurpriseMeFromResult ==
    /\ ~df_empty(recipes_df)
    /\ LET source == IF "recommended_recipes" \in DOMAIN session_state
                        /\ ~df_empty(session_state.recommended_recipes)
                     THEN session_state.recommended_recipes ELSE recipes_df
       IN \E i \in 1..Len(source.rows) :
             LET ss == [recommended_recipes |-> [columns |-> TRUE,
                                                 rows |-> <<source.rows[i]>>],
                        display_count |-> 1]
             IN /\ session_state' = ss
                /\ Draw(ss)
    /\ last_click' = "surprise"
    /\ UNCHANGED <<recipes_df, loaded, load_error, criteria, call>>

\* lines 143-149: "Surprise Me!"; sample(1) draws any one row
SurpriseMe ==
    /\ ~df_empty(recipes_df)
    /\ \E i \in 1..Len(recipes_df.rows) :
          LET random_recipe == recipes_df.rows[i]
              ss == [recommended_recipes |-> [columns |-> TRUE,
                                              rows |-> <<random_recipe>>],
                     display_count |-> 1]
          IN /\ session_state' = ss
             /\ Draw(ss)
    /\ last_click' = "surprise"
    /\ UNCHANGED <<recipes_df, loaded, load_error, criteria, call>>

\* "Show More Recipes" setting the counter to the page size instead of adding it
ShowMoreReset ==
    /\ ~df_empty(recipes_df)
    /\ "recommended_recipes" \in DOMAIN session_state
    /\ ~df_empty(session_state.recommended_recipes)
    /\ Len(session_state.recommended_recipes.rows) > session_state.display_count
    /\ LET ss == [session_state EXCEPT !.display_count = PageSize]
       IN /\ session_state' = ss
          /\ Draw(ss)
    /\ last_click' = "show_more"
    /\ UNCHANGED <<recipes_df, loaded, load_error, criteria, call>>

\* lines 160-163: "Show More Recipes", drawn only when more rows remain
ShowMore ==
    /\ ~df_empty(recipes_df)
    /\ "recommended_recipes" \in DOMAIN session_state
    /\ ~df_empty(session_state.recommended_recipes)
    /\ Len(session_state.recommended_recipes.rows) > session_state.display_count
    /\ LET ss == [session_state EXCEPT
                      !.display_count = session_state.display_count + PageSize]
       IN /\ session_state' = ss
          /\ Draw(ss)
    /\ last_click' = "show_more"
    /\ UNCHANGED <<recipes_df, loaded, load_error, criteria, call>>

-----------------------------------------------------------------------------
(* Inputs *)

Italian == <<"I", "t", "a", "l", "i", "a", "n">>
Mexican == <<"M", "e", "x", "i", "c", "a", "n">>
American == <<"A", "m", "e", "r", "i", "c", "a", "n">>
Dinner == <<"D", "i", "n", "n", "e", "r">>
Lunch == <<"L", "u", "n", "c", "h">>
Easy == <<"E", "a", "s", "y">>
Hard == <<"H", "a", "r", "d">>

\* recipe objects of the file: times in minutes, ingredients as written
RecipeA ==
    [cuisine |-> Italian, meal_type |-> Dinner, difficulty |-> Easy,
     prep_time_minutes |-> 1, cook_time_minutes |-> 2,
     ingredients |-> <<<<" ", "E", "g", "g">>, <<"f", "l", "o", "u", "r">>>>]
RecipeB ==
    [cuisine |-> Mexican, meal_type |-> Lunch, difficulty |-> Hard,
     prep_time_minutes |-> 2, cook_time_minutes |-> 2,
     ingredients |-> <<<<"c", "h", "i", "c", "k", "e", "n">>, <<"G", "a", "r", "l", "i", "c", " ">>>>]
RecipeC ==
    [cuisine |-> Italian, meal_type |-> Dinner, difficulty |-> Easy,
     prep_time_minutes |-> 2, cook_time_minutes |-> 1,
     ingredients |-> <<<<"e", "g", "g", "p", "l", "a", "n", "t">>, <<"o", "i", "l">>>>]
RecipeD ==
    [cuisine |-> American, meal_type |-> Lunch, difficulty |-> Hard,
     prep_time_minutes |-> 1, cook_time_minutes |-> 1,
     ingredients |-> <<>>]

Pool == {RecipeA, RecipeB, RecipeC, RecipeD}

SeqsUpTo(S, n) == UNION {[1..k -> S] : k \in 0..n}

\* the recipes file: missing, not JSON, or an array of at most n recipes
Files(n) ==
    {[kind |-> "missing"], [kind |-> "malformed"]}
      \cup {[kind |-> "json", records |-> rs] : rs \in SeqsUpTo(Pool, n)}

\* the frames load_recipes returns for them
Frames(n) == {load_recipes(f).df : f \in Files(n)}

\* text typed into the ingredient box
QueryNone == <<>>
QueryBlank == <<" ", ",", " ">>
QueryEgg == <<"e", "g", "g">>
QueryEggFlour == <<"E", "g", "g", ",", " ", "f", "l", "o", "u", "r">>
QueryGarlicChicken == <<" ", "g", "a", "r", "l", "i", "c", ",", "c", "h", "i", "c", "k", "e", "n", ",">>

Queries == {QueryNone, QueryBlank, QueryEgg, QueryEggFlour, QueryGarlicChicken}

\* arguments of a direct call of recommend_recipes: any values, the ranges
\* with min > max included
FilterCriteria ==
    [cuisine : {Any, Italian, Mexican},
     meal_type : {Any, Lunch},
     difficulty : {Any, Hard},
     min_prep_time : {1, 2}, max_prep_time : {1, 2},
     min_cook_time : {1, 2}, max_cook_time : {1, 2},
     search_ingredients_str : Queries]

\* the file of the application's specification: the pool's recipes in rotation
CatalogRecipe(i) ==
    IF i % 4 = 1 THEN RecipeA
    ELSE IF i % 4 = 2 THEN RecipeB
    ELSE IF i % 4 = 3 THEN RecipeC
    ELSE RecipeD

CatalogFiles ==
    {[kind |-> "missing"], [kind |-> "malformed"]}
      \cup {[kind |-> "json", records |-> [i \in 1..n |-> CatalogRecipe(i)]] :
                n \in 0..MaxCatalog}

\* selections the widgets allow for the frame df (lines 104-127): the select
\* boxes offer get_unique_values, the sliders 0 <= min <= max <= the column's
\* maximum; of these, the ones enumerated here
WidgetChoices(df) ==
    {c \in [cuisine : Range(get_unique_values(df, "cuisine")),
            meal_type : Range(get_unique_values(df, "meal_type")) \cap {Any, Lunch},
            difficulty : {Any},
            min_prep_time : {0, column_max(df, "prep_time_minutes")},
            max_prep_time : {column_max(df, "prep_time_minutes")},
            min_cook_time : {0},
            max_cook_time : {column_max(df, "cook_time_minutes")},
            search_ingredients_str : {QueryNone, QueryEgg}] :
        c.min_prep_time <= c.max_prep_time /\ c.min_cook_time <= c.max_cook_time}

-----------------------------------------------------------------------------
(* Specification of the application *)

Init ==
    /\ \E f \in CatalogFiles :
          /\ recipes_df = load_recipes(f).df
          /\ loaded = load_recipes(f).df
          /\ load_error = load_recipes(f).error
          /\ criteria = default_criteria(load_recipes(f).df)
          \* line 98: the first run of a store without recipes warns and stops
          /\ warning = IF df_empty(load_recipes(f).df) THEN "no_recipes_loaded"
                       ELSE "none"
    /\ session_state = NoSession
    /\ last_click = "none"
    /\ rendered = 0
    /\ show_more_offered = FALSE
    /\ call = NoCall

\* line 99: the widgets and buttons exist only for a store with recipes
RecommendClick ==
    /\ ~df_empty(recipes_df)
    /\ \E c \in WidgetChoices(recipes_df) : Recommend(c)

Next == RecommendClick \/ SurpriseMe \/ ShowMore

Spec == Init /\ [][Next]_vars

\* the user goes on clicking "Show More Recipes" while it is drawn
FairSpec == Spec /\ WF_vars(ShowMore)

-----------------------------------------------------------------------------
(* Specifications of direct calls of the functions *)

\* the application's variables, idle
Idle ==
    /\ recipes_df = EmptyDataFrame
    /\ loaded = EmptyDataFrame
    /\ load_error = "none"
    /\ session_state = NoSession
    /\ criteria = default_criteria(EmptyDataFrame)
    /\ last_click = "none"
    /\ warning = "none"
    /\ rendered = 0
    /\ show_more_offered = FALSE

\* re.search of line 72 on one term and one ingredient
MatchAlphabet == {"e", "g", " ", "-"}

\* the terms line 66 can produce and the ingredients line 25 can produce
MatchTerms ==
    {t \in SeqsUpTo(MatchAlphabet, MaxTermLen) : t # <<>> /\ strip(t) = t}
MatchIngredients ==
    {g \in SeqsUpTo(MatchAlphabet, MaxIngLen) : strip(g) = g}

InitMatch ==
    /\ Idle
    /\ \E t \in MatchTerms, g \in MatchIngredients :
          call = [fn |-> "term_matches", term |-> t, ingredient |-> g,
                  done |-> FALSE, out |-> FALSE]

CallMatch ==
    /\ call.fn = "term_matches" /\ ~call.done
    /\ call' = [call EXCEPT !.done = TRUE,
                            !.out = term_matches(call.term, call.ingredient)]
    /\ UNCHANGED uivars

SpecMatch == InitMatch /\ [][CallMatch]_vars

\* recommend_recipes on a loaded frame
NoOutcome == [raised |-> FALSE, result |-> EmptyDataFrame, df |-> EmptyDataFrame]

InitFilter ==
    /\ Idle
    /\ \E df \in Frames(MaxRecipes), c \in FilterCriteria :
          call = [fn |-> "recommend_recipes", df |-> df, c |-> c,
                  done |-> FALSE, out |-> NoOutcome]

CallFilter ==
    /\ call.fn = "recommend_recipes" /\ ~call.done
    /\ call' = [call EXCEPT !.done = TRUE,
                            !.out = recommend_recipes(call.df, call.c)]
    /\ UNCHANGED uivars

SpecFilter == InitFilter /\ [][CallFilter]_vars

\* get_unique_values on a loaded frame
InitUnique ==
    /\ Idle
    /\ \E df \in Frames(MaxRows), column \in {"cuisine", "meal_type", "difficulty"} :
          call = [fn |-> "get_unique_values", df |-> df, column |-> column,
                  done |-> FALSE, out |-> <<>>]

CallUnique ==
    /\ call.fn = "get_unique_values" /\ ~call.done
    /\ call' = [call EXCEPT !.done = TRUE,
                            !.out = get_unique_values(call.df, call.column)]
    /\ UNCHANGED uivars

SpecUnique == InitUnique /\ [][CallUnique]_vars

-----------------------------------------------------------------------------
(* Properties of recommend_recipes, checked under SpecFilter *)

FilterDone == call.fn = "recommend_recipes" /\ call.done

\* the predicates of the criteria c, all at once, on the row r
Satisfies(r, c) ==
    /\ c.cuisine # Any => r.cuisine = c.cuisine
    /\ c.meal_type # Any => r.meal_type = c.meal_type
    /\ c.difficulty # Any => r.difficulty = c.difficulty
    /\ c.min_prep_time <= r.prep_time_minutes
    /\ r.prep_time_minutes <= c.max_prep_time
    /\ c.min_cook_time <= r.cook_time_minutes
    /\ r.cook_time_minutes <= c.max_cook_time
    /\ LET terms == search_terms(c.search_ingredients_str)
       IN terms # <<>> =>
              \A k \in 1..Len(terms) :
                  \E j \in 1..Len(r.ingredients_list) :
                      term_matches(terms[k], r.ingredients_list[j])

\* C1: the frame a call returns holds exactly the rows of the collection that
\* satisfy every active predicate of the criteria: none that fails one, and
\* every one that satisfies them all.  (A call that raises returns no frame.)
C1_FilterExact ==
    FilterDone /\ ~call.out.raised =>
        call.out.result.rows = SelectSeq(call.df.rows, LAMBDA r : Satisfies(r, call.c))

\* a call that kept one of two Italian recipes: the one with "egg", not the one
\* with "eggplant", the prep time of the kept one on the range's bound
C1_Witness ==
    /\ FilterDone /\ ~call.out.raised
    /\ Len(call.df.rows) = 2
    /\ \A i \in 1..2 : call.df.rows[i].cuisine = Italian
    /\ call.c.cuisine = Italian
    /\ call.c.search_ingredients_str = QueryEgg
    /\ Len(call.out.result.rows) = 1
    /\ call.out.result.rows[1].prep_time_minutes = call.c.max_prep_time

\* C3: a call on any loaded frame, the empty frame of a failed load included,
\* returns and does not raise; on the empty frame it returns no rows.
C3_NeverRaises ==
    FilterDone =>
        /\ ~call.out.raised
        /\ df_empty(call.df) => call.out.result.rows = <<>>

\* a is b with some elements left out
RECURSIVE IsSubsequence(_, _)
IsSubsequence(a, b) ==
    IF a = <<>> THEN TRUE
    ELSE IF b = <<>> THEN FALSE
    ELSE IF Head(a) = Head(b) THEN IsSubsequence(Tail(a), Tail(b))
    ELSE IsSubsequence(a, Tail(b))

\* C4: the rows returned are a subsequence of the collection's rows (each a row
\* of the collection, none more often than there, in the collection's order),
\* and each narrowing step's rows are a subsequence of the step before.
C4_Subsequence ==
    FilterDone /\ ~call.out.raised =>
        LET passes == filter_passes(call.df, call.c)
        IN /\ IsSubsequence(call.out.result.rows, call.df.rows)
           /\ passes[1] = call.df.rows
           /\ passes[Len(passes)] = call.out.result.rows
           /\ \A k \in 1..(Len(passes) - 1) : IsSubsequence(passes[k + 1], passes[k])

\* a call whose ingredient step kept two rows and dropped one between or
\* around them
C4_Witness ==
    /\ FilterDone /\ ~call.out.raised
    /\ search_terms(call.c.search_ingredients_str) # <<>>
    /\ Len(call.out.result.rows) = 2
    /\ call.out.result.rows[1].index < call.out.result.rows[2].index

\* the query is not empty and holds only commas and whitespace
BlankQuery(str) ==
    str # <<>> /\ \A i \in 1..Len(str) : str[i] \in Whitespace \cup {","}

\* C5: with a query of only commas and whitespace the call's outcome is the
\* outcome of the same call with the empty query.
C5_BlankQuery ==
    FilterDone /\ BlankQuery(call.c.search_ingredients_str) =>
        call.out = recommend_recipes(call.df,
                       [call.c EXCEPT !.search_ingredients_str = <<>>])

\* a blank query on a recipe without ingredients, which the call returns
C5_Witness ==
    /\ FilterDone /\ BlankQuery(call.c.search_ingredients_str)
    /\ call.out.result.rows # <<>>
    /\ \E i \in 1..Len(call.out.result.rows) :
          call.out.result.rows[i].ingredients_list = <<>>

\* C6: with min > max for the prep range or for the cook range the call returns
\* no rows and does not raise, on every collection.
C6_InvertedRange ==
    FilterDone /\ (call.c.min_prep_time > call.c.max_prep_time
                   \/ call.c.min_cook_time > call.c.max_cook_time) =>
        ~call.out.raised /\ call.out.result.rows = <<>>

-----------------------------------------------------------------------------
(* Property of the matcher, checked under SpecMatch *)

\* the term stands in s at positions i .. i + Len(term) - 1, character for character
OccursAt(term, s, i) ==
    /\ i >= 1 /\ i + Len(term) - 1 <= Len(s)
    /\ \A k \in 1..Len(term) : s[i + k - 1] = term[k]

\* C2: the term matches the ingredient exactly when it occurs in it as a literal
\* substring at a place where the character before it and the character after it
\* are not alphanumeric or underscore.
C2_WholeWord ==
    call.fn = "term_matches" /\ call.done =>
        (call.out <=>
            \E i \in 1..Len(call.ingredient) :
                /\ OccursAt(call.term, call.ingredient, i)
                /\ ~IsWordAt(call.ingredient, i - 1)
                /\ ~IsWordAt(call.ingredient, i + Len(call.term)))

-----------------------------------------------------------------------------
(* Property of get_unique_values, checked under SpecUnique *)

\* C7: the list starts with 'Any'; after it come the distinct values of the
\* column, each once, ascending; for a frame without recipes it is ['Any'].
C7_UniqueValues ==
    call.fn = "get_unique_values" /\ call.done =>
        LET out == call.out
            rest == Tail(out)
        IN /\ out # <<>> /\ out[1] = Any
           /\ Range(rest) = Range(column_values(call.df, call.column))
           /\ \A i \in 1..(Len(rest) - 1) : str_less(rest[i], rest[i + 1])
           /\ df_empty(call.df) => out = <<Any>>

\* three recipes, two of them of one cuisine, one of a cuisine that sorts
\* before 'Any', listed in the file in descending order
C7_Witness ==
    /\ call.fn = "get_unique_values" /\ call.done
    /\ call.column = "cuisine"
    /\ Len(call.df.rows) = 3
    /\ call.df.rows[1].cuisine = Mexican
    /\ call.out = <<Any, American, Mexican>>

-----------------------------------------------------------------------------
(* Properties of the application, checked under Spec and FairSpec *)

HasResult == "recommended_recipes" \in DOMAIN session_state

ResultSize == Len(session_state.recommended_recipes.rows)

\* C8: whatever was clicked, the collection is the collection as loaded, and
\* the frame a Recommend click stored is the frame the filter returns for the
\* collection as loaded and the click's criteria.
C8_FilterPure ==
    /\ recipes_df = loaded
    /\ last_click = "recommend" =>
           /\ HasResult
           /\ session_state.recommended_recipes
                  = recommend_recipes(loaded, criteria).result

\* a Recommend click that kept some recipes and dropped others
C8_Witness ==
    /\ last_click = "recommend"
    /\ HasResult
    /\ ResultSize > 0
    /\ ResultSize < Len(recipes_df.rows)
    /\ recipes_df = loaded

\* a "Surprise Me!" step that stores row i of the collection
SurprisePicks(i) ==
    /\ SurpriseMe
    /\ session_state'.recommended_recipes.rows = <<recipes_df.rows[i]>>

\* C9: after "Surprise Me!" the session holds exactly one recipe, a row of the
\* full collection, with the counter at 1 and one recipe drawn; in every state
\* of a store with recipes every row of the collection can be the pick,
\* whatever the criteria and the stored result; a store without recipes shows
\* the warning and never holds a recipe.
C9_SurprisePick ==
    /\ last_click = "surprise" =>
           /\ HasResult
           /\ ResultSize = 1
           /\ session_state.recommended_recipes.rows[1] \in Range(recipes_df.rows)
           /\ session_state.display_count = 1
           /\ rendered = 1
    /\ ~df_empty(recipes_df) =>
           \A i \in 1..Len(recipes_df.rows) : ENABLED SurprisePicks(i)
    /\ df_empty(recipes_df) =>
           /\ warning = "no_recipes_loaded"
           /\ session_state = NoSession
           /\ rendered = 0
           /\ ~ENABLED SurpriseMe

\* a pick that the criteria of the last Recommend click exclude
C9_Witness ==
    /\ last_click = "surprise"
    /\ criteria # default_criteria(recipes_df)
    /\ HasResult
    /\ session_state.recommended_recipes.rows[1]
           \notin Range(recommend_recipes(recipes_df, criteria).result.rows)

Min(a, b) == IF a < b THEN a ELSE b

\* what C10 says of a state, but for the counter's bound
PaginationState ==
    /\ show_more_offered <=>
           (HasResult /\ ResultSize > session_state.display_count)
    /\ HasResult => rendered = Min(session_state.display_count, ResultSize)
    /\ ~HasResult => rendered = 0

\* what C10 says of a step
PaginationStep ==
    /\ last_click' = "recommend" => session_state'.display_count = PageSize
    /\ last_click' = "show_more" =>
           /\ show_more_offered
           /\ session_state'.display_count = session_state.display_count + PageSize
           /\ session_state'.recommended_recipes = session_state.recommended_recipes

AllRendered == ~show_more_offered /\ (HasResult => rendered = ResultSize)

\* from some point on only "Show More Recipes" is clicked: then from some point
\* on every recipe of the result is drawn and the button is gone
ShowMoreExhausts == <>[][ShowMore]_vars => <>[]AllRendered

\* the counter is below the result's size plus 5
CounterBelowSizePlusPage ==
    HasResult => session_state.display_count < ResultSize + PageSize

\* C10 as stated: Recommend sets the counter to 5, Show More adds 5 and is
\* offered only while the result holds more recipes than the counter; the
\* recipes drawn are min(counter, size); the counter is below size + 5;
\* repeated Show More draws them all.
C10_AsStated ==
    /\ [](PaginationState /\ CounterBelowSizePlusPage)
    /\ [][PaginationStep]_vars
    /\ ShowMoreExhausts

\* C10 as amended: Recommend sets the counter to 5, Show More adds 5 and is
\* offered only while the result holds more recipes than the counter; the
\* recipes drawn are min(counter, size); the counter is at most size + 5, and
\* below it when the result is not empty; repeated Show More draws them all.
C10_Pagination ==
    /\ [](PaginationState
          /\ (HasResult => session_state.display_count <= ResultSize + PageSize)
          /\ (HasResult /\ ResultSize > 0 =>
                  session_state.display_count < ResultSize + PageSize))
    /\ [][PaginationStep]_vars
    /\ ShowMoreExhausts

\* a result of more than two pages drawn in full after two Show More clicks
C10_Witness ==
    /\ last_click = "show_more"
    /\ HasResult
    /\ ResultSize > 2 * PageSize
    /\ session_state.display_count = 3 * PageSize
    /\ rendered = ResultSize
    /\ ~show_more_offered

=============================================================================
